---------------------------- MODULE Spec2Model ----------------------------
(***************************************************************************)
(* Digital Decay: the shared DecayEngine, the per-frame run loops of the   *)
(* main menu and the three mini-games, the end and start screens, and the  *)
(* driver loop of main.py that routes control between them.                *)
(*                                                                         *)
(* Numbers.  decay_percentage is a float in the program; here it is a      *)
(* fixed-point integer in units of 0.05 percentage point (Pt(1) = 20), so  *)
(* that the 5% damping of the grid synchronisation is a division by 20.    *)
(* Times are integer milliseconds (pygame.time.get_ticks()).  Frame times  *)
(* are drawn from small sets chosen so that every product the code forms   *)
(* is exact in these units.                                                *)
(*                                                                         *)
(* Events.  Every handler reads pygame.event.get() in a for loop and       *)
(* returns at the first event that ends the frame; the rest of the drained *)
(* queue is dropped.  A frame's input is therefore the events handled up   *)
(* to and including that first returning event.                            *)
(***************************************************************************)
EXTENDS Integers, Sequences, FiniteSets, TLC

VARIABLES
    pc,               \* where the driver is: a screen's loop or the top of main's while
    engines,          \* the DecayEngine objects that exist, by identity
    decay_engine,     \* main(): the engine the driver holds
    menu,             \* main(): the MainMenu object (the engine it holds)
    current_game,     \* main(): the mini-game object or None
    current_state,    \* main()
    next_state,       \* main()
    running,          \* main()
    restart_flag,     \* main()
    end_screen_shown, \* main()
    result,           \* what the last screen frame made run() return
    end_local,        \* locals of run_end_screen
    start_local,      \* locals of run_start_screen
    last_event,       \* the returning event handled by the last frame
    crossed,          \* reached_zero went false->true during the last frame
    end_runs,         \* per engine: how often run_end_screen was started
    frame_calls,      \* the calls the last frame of a screen made, in order
    call              \* engine called directly: the argument and the returned value

vars == <<pc, engines, decay_engine, menu, current_game, current_state,
          next_state, running, restart_flag, end_screen_shown, result,
          end_local, start_local, last_event, crossed, end_runs,
          frame_calls, call>>

driver_vars == <<decay_engine, menu, current_game, current_state, next_state,
                 running, restart_flag, end_screen_shown>>

-----------------------------------------------------------------------------
(* Numbers and program constants *)

Pt(n) == n * 20

Min(a, b) == IF a <= b THEN a ELSE b
Max(a, b) == IF a >= b THEN a ELSE b
Abs(a) == IF a >= 0 THEN a ELSE 0 - a

MaxEngines == 2

EngineIds == 1..MaxEngines

NoEngine == [decay_percentage |-> 0 - 1, decay_time |-> 0, reached_zero |-> FALSE]

DECAY_TIME == 120
START_DECAY_TIME == 30
AUTO_RESET_TIME == 30
GRID_ROWS == 7
GRID_COLS == 13
UPDATE_INTERVAL == 2000

GameNames == {"game1", "game2", "game3"}
ScreenNames == {"main_menu"} \cup GameNames

-----------------------------------------------------------------------------
(* decay_engine.py *)

DecayEngine(decay_time) ==
    [decay_percentage |-> Pt(100), decay_time |-> decay_time, reached_zero |-> FALSE]

update_NoZeroClamp(e, delta_time) ==
    LET p == e.decay_percentage - (Pt(100) * delta_time) \div (e.decay_time * 1000)
    IN  IF p <= 0
        THEN [e EXCEPT !.decay_percentage = p, !.reached_zero = TRUE]
        ELSE [e EXCEPT !.decay_percentage = Min(Pt(100), p), !.reached_zero = FALSE]

\* update(delta_time) with an explicit delta_time, in milliseconds
update(e, delta_time) ==
    LET p == e.decay_percentage - (Pt(100) * delta_time) \div (e.decay_time * 1000)
    IN  IF p <= 0
        THEN [e EXCEPT !.decay_percentage = 0, !.reached_zero = TRUE]
        ELSE [e EXCEPT !.decay_percentage = Min(Pt(100), p), !.reached_zero = FALSE]

modify_decay_KeepsFlag(e, amount) ==
    LET p == e.decay_percentage + amount
    IN  IF p <= 0
        THEN [e EXCEPT !.decay_percentage = 0, !.reached_zero = TRUE]
        ELSE [e EXCEPT !.decay_percentage = Min(Pt(100), p)]

modify_decay(e, amount) ==
    LET p == e.decay_percentage + amount
    IN  IF p <= 0
        THEN [e EXCEPT !.decay_percentage = 0, !.reached_zero = TRUE]
        ELSE [e EXCEPT !.decay_percentage = Min(Pt(100), p), !.reached_zero = FALSE]

-----------------------------------------------------------------------------
(* What a frame does to the engine it holds: the engine after the calls    *)
(* made so far, and whether reached_zero was raised by one of them.        *)

Frame(e) == [e |-> e, crossed |-> FALSE, calls |-> <<>>]

\* a method of the screen is entered
Enter(f, name) == [f EXCEPT !.calls = Append(@, name)]

Upd(f, delta_time) ==
    LET e2 == update(f.e, delta_time)
    IN  [e |-> e2,
         crossed |-> f.crossed \/ (~f.e.reached_zero /\ e2.reached_zero),
         calls |-> Append(f.calls, "update")]

Mod_SignalsAgain(f, amount) ==
    LET e2 == modify_decay(f.e, amount)
    IN  [e |-> e2,
         crossed |-> f.crossed \/ e2.reached_zero,
         calls |-> Append(f.calls, "modify_decay")]

Mod(f, amount) ==
    LET e2 == modify_decay(f.e, amount)
    IN  [e |-> e2,
         crossed |-> f.crossed \/ (~f.e.reached_zero /\ e2.reached_zero),
         calls |-> Append(f.calls, "modify_decay")]

-----------------------------------------------------------------------------
(* main_menu.py.  update() returns False, True or a state name; they are   *)
(* the strings "False", "True" and the name.  update_objects() moves the   *)
(* 3D objects and does not touch the engine.  should_transition is set     *)
(* False in __init__ and never set True, so that branch does not return.   *)

MenuEvents == {"none", "quit", "esc", "click"}

MainMenu_update(e, delta_time, ev, random_game) ==
    LET f == Upd(Frame(e), delta_time)
    IN  [f |-> f,
         ret |-> CASE ev = "quit" -> "False"
                   [] ev = "esc" -> "False"
                   [] ev = "click" -> random_game
                   [] OTHER -> "True"]

MainMenu_run_QuitFirst(u) ==
    IF u.ret = "False" THEN "None"
    ELSE IF u.f.e.decay_percentage <= 0 THEN "end_screen"
    ELSE IF u.ret # "True" THEN u.ret
    ELSE "continue"

\* One pass of the while loop of run(): what run() returns, or "continue"
\* when the loop goes round.  A False result clears `running`, the frame is
\* still drawn, the loop ends and run() returns None.
MainMenu_run(u) ==
    IF u.f.e.decay_percentage <= 0 THEN "end_screen"
    ELSE IF u.ret = "False" THEN "None"
    ELSE IF u.ret # "True" THEN u.ret
    ELSE "continue"

-----------------------------------------------------------------------------
(* games/game1.py.  The 91 blocks are not kept here: a frame is given the  *)
(* value calculate_grid_decay() returns when a synchronisation reads it    *)
(* (health_timer at the timer's call, health_stage at the stage-change     *)
(* call), whether a block changed stage, and the decay_value of a clicked  *)
(* block in thousandths.                                                   *)

GameEvents == {"none", "quit", "esc", "back"}

Game1(engine_id) == [kind |-> "game1", engine |-> engine_id, update_timer |-> 0]

sync_decay_with_grid_Snaps(f, grid_decay_percentage) ==
    LET change == grid_decay_percentage - f.e.decay_percentage
        f1 == Enter(f, "sync_decay_with_grid")
    IN  IF Abs(change) > Pt(1)
        THEN Mod(f1, change)
        ELSE f1

\* grid_decay_percentage is what calculate_grid_decay() returns
sync_decay_with_grid(f, grid_decay_percentage) ==
    LET change == grid_decay_percentage - f.e.decay_percentage
        f1 == Enter(f, "sync_decay_with_grid")
    IN  IF Abs(change) > Pt(1)
        THEN Mod(f1, (change * 5) \div 100)
        ELSE f1

handle_click_NoBoost(f, click, decay_value) ==
    IF click = "block"
    THEN Mod(Enter(f, "handle_click"),
             (decay_value * Pt(100)) \div (GRID_ROWS * GRID_COLS * 1000))
    ELSE IF click = "miss" THEN Enter(f, "handle_click")
    ELSE f

\* click is "none" (no click), "miss" (no block under the pointer) or
\* "block"; decay_value is the clicked block's decay_value in thousandths
handle_click(f, click, decay_value) ==
    IF click = "block"
    THEN Mod(Enter(f, "handle_click"),
             (decay_value * Pt(100) * 15) \div (GRID_ROWS * GRID_COLS * 1000 * 10))
    ELSE IF click = "miss" THEN Enter(f, "handle_click")
    ELSE f

GameReturn_EscQuits(ev) ==
    CASE ev = "quit" -> "False"
      [] ev = "esc" -> "False"
      [] ev = "back" -> "main_menu"
      [] OTHER -> "True"

\* What update() of a mini-game returns for the frame's returning event
GameReturn(ev) ==
    CASE ev = "quit" -> "False"
      [] ev = "esc" -> "main_menu"
      [] ev = "back" -> "main_menu"
      [] OTHER -> "True"

Game1_update_TimerIdle(e, g, delta_time, health_timer, stages_changed, health_stage, click, decay_value, ev) ==
    LET timer == g.update_timer + delta_time
        fire == timer >= UPDATE_INTERVAL
        f2 == Upd(Frame(e), delta_time \div 2)
        f3 == IF stages_changed THEN sync_decay_with_grid(f2, health_stage) ELSE f2
        f4 == handle_click(f3, click, decay_value)
    IN  [f |-> f4,
         ret |-> GameReturn(ev),
         game |-> [g EXCEPT !.update_timer = IF fire THEN 0 ELSE timer]]

Game1_update_SyncAfterClick(e, g, delta_time, health_timer, stages_changed, health_stage, click, decay_value, ev) ==
    LET timer == g.update_timer + delta_time
        fire == timer >= UPDATE_INTERVAL
        f1 == IF fire THEN sync_decay_with_grid(Frame(e), health_timer) ELSE Frame(e)
        f2 == Upd(f1, delta_time \div 2)
        f3 == IF stages_changed THEN sync_decay_with_grid(f2, health_stage) ELSE f2
        f4 == handle_click(f3, click, decay_value)
        f5 == IF click = "block" THEN sync_decay_with_grid(f4, health_stage) ELSE f4
    IN  [f |-> f5,
         ret |-> GameReturn(ev),
         game |-> [g EXCEPT !.update_timer = IF fire THEN 0 ELSE timer]]

Game1_update(e, g, delta_time, health_timer, stages_changed, health_stage, click, decay_value, ev) ==
    LET timer == g.update_timer + delta_time
        fire == timer >= UPDATE_INTERVAL
        f1 == IF fire THEN sync_decay_with_grid(Frame(e), health_timer) ELSE Frame(e)
        f2 == Upd(f1, delta_time \div 2)
        f3 == IF stages_changed THEN sync_decay_with_grid(f2, health_stage) ELSE f2
        f4 == handle_click(f3, click, decay_value)
    IN  [f |-> f4,
         ret |-> GameReturn(ev),
         game |-> [g EXCEPT !.update_timer = IF fire THEN 0 ELSE timer]]

-----------------------------------------------------------------------------
(* games/game2.py.  The falling blocks are not kept here: a frame is given *)
(* the decay_level (in hundredths) of each block that hits the paddle.     *)

Game2(engine_id) == [kind |-> "game2", engine |-> engine_id, update_timer |-> 0]

\* Block.handle_collision: the returned change, in hundredths
handle_collision(decay_level) ==
    (decay_level - Max(0, decay_level - 20)) * 2

RECURSIVE update_blocks(_)
update_blocks(hits) ==
    IF hits = <<>> THEN 0
    ELSE handle_collision(Head(hits)) + update_blocks(Tail(hits))

Game2_update_GainFirst(e, g, delta_time, hits, ev) ==
    LET f1 == Mod(Enter(Frame(e), "update_blocks"),
                  (update_blocks(hits) * 10 * Pt(1)) \div 100)
        f2 == Upd(f1, delta_time)
    IN  [f |-> f2, ret |-> GameReturn(ev), game |-> g]

Game2_update(e, g, delta_time, hits, ev) ==
    LET f1 == Upd(Frame(e), delta_time)
        f2 == Mod(Enter(f1, "update_blocks"),
                  (update_blocks(hits) * 10 * Pt(1)) \div 100)
    IN  [f |-> f2, ret |-> GameReturn(ev), game |-> g]

-----------------------------------------------------------------------------
(* games/game3.py.  The sequence game is not kept here: a frame is given   *)
(* what update_game() returns (game_change) and what handle_key_press()    *)
(* returns for a key handled before the returning event (key_pressed,     *)
(* key_change).                                                            *)

Game3(engine_id) == [kind |-> "game3", engine |-> engine_id, update_timer |-> 0]

correct_decay_bonus == Pt(5)
wrong_decay_penalty == 0 - Pt(2)

\* check_player_completion() from the timeout in update_game()
GameChanges == {0, correct_decay_bonus, wrong_decay_penalty, wrong_decay_penalty \div 2}

\* handle_key_press()
KeyChanges == {0, Pt(1), correct_decay_bonus, wrong_decay_penalty, wrong_decay_penalty \div 2}

Game3_update(e, g, delta_time, game_change, key_pressed, key_change, ev) ==
    LET f1 == Enter(Upd(Frame(e), delta_time), "update_game")
        f2 == IF game_change # 0 THEN Mod(f1, game_change) ELSE f1
        f3 == IF key_pressed THEN Mod(Enter(f2, "handle_key_press"), key_change) ELSE f2
    IN  [f |-> f3, ret |-> GameReturn(ev), game |-> g]

\* Game1.run, Game2.run and Game3.run are the same loop
Game_run(u) ==
    IF u.f.e.decay_percentage <= 0 THEN "end_screen"
    ELSE IF u.ret = "False" THEN "None"
    ELSE IF u.ret # "True" THEN u.ret
    ELSE "continue"

-----------------------------------------------------------------------------
(* end_screen.py and start_screen.py.  Both loops handle QUIT, K_RETURN    *)
(* and K_ESCAPE; a K_RETURN handled before an ESC or QUIT of the same      *)
(* frame has no effect on what the function returns.                       *)

KeyEvents == {"none", "return", "esc", "quit"}

EndLocal ==
    [elapsed |-> 0, fade_alpha |-> 255, fade_in |-> TRUE, fade_out |-> FALSE,
     return_pressed |-> FALSE]

run_end_screen_TimerRestarts(l, delta_time, ev) ==
    LET elapsed == (l.elapsed + delta_time) % (AUTO_RESET_TIME * 1000)
        fade_out2 == l.fade_out \/ ev = "return"
        alpha1 == IF l.fade_in
                  THEN Max(0, l.fade_alpha - (255 * delta_time) \div 1000)
                  ELSE l.fade_alpha
        alpha2 == IF fade_out2
                  THEN Min(255, alpha1 + (510 * delta_time) \div 1000)
                  ELSE alpha1
    IN  IF ev \in {"quit", "esc"}
        THEN [local |-> [l EXCEPT !.elapsed = elapsed], ret |-> "False"]
        ELSE [local |-> [elapsed |-> elapsed, fade_alpha |-> alpha2,
                         fade_in |-> l.fade_in /\ ~(alpha1 <= 0), fade_out |-> fade_out2,
                         return_pressed |-> l.return_pressed \/ ev = "return"],
              ret |-> IF fade_out2 /\ alpha2 >= 255 THEN "True" ELSE "continue"]

\* One pass of the while loop of run_end_screen(): "True"/"False" when the
\* function returns, "continue" when the loop goes round.  elapsed is
\* time.time() - start_time, kept up to auto_reset_time.
run_end_screen(l, delta_time, ev) ==
    LET elapsed == Min(AUTO_RESET_TIME * 1000, l.elapsed + delta_time)
        fade_out1 == l.fade_out \/ elapsed >= AUTO_RESET_TIME * 1000
        fade_out2 == fade_out1 \/ ev = "return"
        alpha1 == IF l.fade_in
                  THEN Max(0, l.fade_alpha - (255 * delta_time) \div 1000)
                  ELSE l.fade_alpha
        fade_in1 == l.fade_in /\ ~(alpha1 <= 0)
        alpha2 == IF fade_out2
                  THEN Min(255, alpha1 + (510 * delta_time) \div 1000)
                  ELSE alpha1
        l2 == [elapsed |-> elapsed, fade_alpha |-> alpha2, fade_in |-> fade_in1,
               fade_out |-> fade_out2,
               return_pressed |-> l.return_pressed \/ ev = "return"]
    IN  IF ev \in {"quit", "esc"}
        THEN [local |-> [l EXCEPT !.elapsed = elapsed, !.fade_out = fade_out1],
              ret |-> "False"]
        ELSE [local |-> l2,
              ret |-> IF fade_out2 /\ alpha2 >= 255 THEN "True" ELSE "continue"]

StartLocal ==
    [engine |-> DecayEngine(START_DECAY_TIME), fade_alpha |-> 255,
     fade_in |-> TRUE, fade_out |-> FALSE]

\* One pass of the while loop of run_start_screen()
run_start_screen(l, delta_time, ev) ==
    LET fade_out1 == l.fade_out \/ ev = "return"
        e1 == update(l.engine, delta_time)
        alpha1 == IF l.fade_in
                  THEN Max(0, l.fade_alpha - (255 * delta_time) \div 1000)
                  ELSE l.fade_alpha
        fade_in1 == l.fade_in /\ ~(alpha1 <= 0)
        alpha2 == IF fade_out1
                  THEN Min(255, alpha1 + (510 * delta_time) \div 1000)
                  ELSE alpha1
    IN  IF ev \in {"quit", "esc"}
        THEN [local |-> l, ret |-> "False"]
        ELSE [local |-> [engine |-> e1, fade_alpha |-> alpha2,
                         fade_in |-> fade_in1, fade_out |-> fade_out1],
              ret |-> IF fade_out1 /\ alpha2 >= 255 THEN "True" ELSE "continue"]

-----------------------------------------------------------------------------
(* main.py: the driver *)

NoCall == [arg |-> 0, ret |-> 0]

NoGame == [kind |-> "None", engine |-> 0, update_timer |-> 0]

MainMenu(engine_id) == [engine |-> engine_id]

NewGame(name, engine_id) ==
    CASE name = "game1" -> Game1(engine_id)
      [] name = "game2" -> Game2(engine_id)
      [] OTHER -> Game3(engine_id)

\* Inputs of the frames
FrameDeltas == {1200, 24000}
EndDeltas == {200, 10000}
StartDeltas == {600, 3000}
\* Grid health values 20 or 40 points away from the engine's percentage p
GridHealths(p) ==
    {h \in {p - Pt(40), p - Pt(20), p + Pt(20), p + Pt(40)} : h >= 0 /\ h <= Pt(100)}
\* decay_value of a clicked block, in thousandths
ClickedDecays == {607}
Clicks == {"none", "miss", "block"}
Hits == {<<>>, <<5>>, <<100>>, <<100, 100>>}

Init ==
    /\ pc = "boot_start"
    /\ engines = [i \in EngineIds |-> IF i = 1 THEN DecayEngine(DECAY_TIME) ELSE NoEngine]
    /\ decay_engine = 1
    /\ menu = MainMenu(0)
    /\ current_game = NoGame
    /\ current_state = "main_menu"
    /\ next_state = "None"
    /\ running = TRUE
    /\ restart_flag = FALSE
    /\ end_screen_shown = FALSE
    /\ result = "none"
    /\ end_local = EndLocal
    /\ start_local = StartLocal
    /\ last_event = "none"
    /\ crossed = FALSE
    /\ end_runs = [i \in EngineIds |-> 0]
    /\ frame_calls = <<>>
    /\ call = NoCall

\* main.py 295-302 and 309-316: what the driver does with the value run()
\* returned; heap is the engines as the frame left them
handle_result(heap, r) ==
    /\ running' = (r # "None")
    /\ engines' = IF r = "end_screen"
                  THEN [heap EXCEPT ![decay_engine].decay_percentage = 0]
                  ELSE heap
    /\ end_screen_shown' = IF r = "end_screen" THEN FALSE ELSE end_screen_shown
    /\ next_state' = IF r \notin {"None", "end_screen"} THEN r ELSE next_state

\* A frame of the active screen's run(): either the loop goes round, or
\* run() returns r, the driver handles it and reaches the top of its loop
ScreenFrame(engine_id, f, r, ev) ==
    /\ result' = r
    /\ last_event' = ev
    /\ crossed' = f.crossed
    /\ frame_calls' = f.calls
    /\ IF r = "continue"
       THEN /\ pc' = pc
            /\ engines' = [engines EXCEPT ![engine_id] = f.e]
            /\ UNCHANGED <<running, end_screen_shown, next_state>>
       ELSE /\ pc' = "loop"
            /\ handle_result([engines EXCEPT ![engine_id] = f.e], r)
    /\ UNCHANGED <<decay_engine, menu, current_state, restart_flag,
                   end_local, start_local, end_runs, call>>

MainMenuFrame ==
    /\ pc = "menu"
    /\ \E delta_time \in FrameDeltas, ev \in MenuEvents :
       \E random_game \in (IF ev = "click" THEN GameNames ELSE {"game1"}) :
          LET u == MainMenu_update(engines[menu.engine], delta_time, ev, random_game)
          IN  ScreenFrame(menu.engine, u.f, MainMenu_run(u), ev)
    /\ UNCHANGED current_game

Game1Frame ==
    /\ pc = "game"
    /\ current_game.kind = "game1"
    /\ \E delta_time \in FrameDeltas, stages_changed \in BOOLEAN,
          click \in Clicks, ev \in GameEvents :
       LET e == engines[current_game.engine]
           fire == current_game.update_timer + delta_time >= UPDATE_INTERVAL
       IN  \E health_timer \in (IF fire THEN GridHealths(e.decay_percentage) ELSE {Pt(0)}) :
           LET before == Game1_update(e, current_game, delta_time, health_timer,
                                      FALSE, Pt(0), "none", 0, "none").f.e
           IN  \E health_stage \in (IF stages_changed
                                     THEN GridHealths(before.decay_percentage)
                                     ELSE {Pt(0)}) :
               \E decay_value \in ClickedDecays :
               LET u == Game1_update(e, current_game, delta_time, health_timer,
                                     stages_changed, health_stage,
                                     click, decay_value, ev)
               IN  /\ ScreenFrame(current_game.engine, u.f, Game_run(u), ev)
                   /\ current_game' = u.game

Game2Frame ==
    /\ pc = "game"
    /\ current_game.kind = "game2"
    /\ \E delta_time \in FrameDeltas, hits \in Hits, ev \in GameEvents :
          LET u == Game2_update(engines[current_game.engine], current_game,
                                delta_time, hits, ev)
          IN  /\ ScreenFrame(current_game.engine, u.f, Game_run(u), ev)
              /\ current_game' = u.game

Game3Frame ==
    /\ pc = "game"
    /\ current_game.kind = "game3"
    /\ \E delta_time \in FrameDeltas, game_change \in GameChanges,
          key_pressed \in BOOLEAN, ev \in GameEvents :
       \E key_change \in (IF key_pressed /\ game_change = 0 THEN KeyChanges ELSE {0}) :
          LET u == Game3_update(engines[current_game.engine], current_game,
                                delta_time, game_change, key_pressed, key_change, ev)
          IN  /\ ScreenFrame(current_game.engine, u.f, Game_run(u), ev)
              /\ current_game' = u.game

\* main.py 189: the driver's zero check
ZeroDecayDetected_Strict(e, shown) == e.decay_percentage < 0 /\ ~shown

ZeroDecayDetected(e, shown) == e.decay_percentage <= 0 /\ ~shown

\* main.py 168-186.  MainMenu.reset_state() is called first, and main_menu.py
\* defines no reset_state: the call raises AttributeError, which nothing in
\* main() catches, so lines 176-186 (the fresh DecayEngine, the new menu,
\* end_screen_shown = False) are not run.
RestartBranch ==
    /\ restart_flag' = FALSE
    /\ current_state' = "main_menu"
    /\ pc' = "crashed"
    /\ UNCHANGED <<engines, decay_engine, menu, current_game, next_state, running,
                   end_screen_shown, end_local, start_local, end_runs>>

\* main.py 189-206: the end screen is started
ZeroDecayBranch ==
    /\ end_screen_shown' = TRUE
    /\ next_state' = IF next_state = "end_screen" THEN "None" ELSE next_state
    /\ pc' = "end_screen"
    /\ end_local' = EndLocal
    /\ end_runs' = [end_runs EXCEPT ![decay_engine] = @ + 1]
    /\ UNCHANGED <<engines, decay_engine, menu, current_game, current_state,
                   running, restart_flag, start_local>>

\* main.py 290-323: run() of the current state is entered (cs, cg and ns are
\* current_state, current_game and next_state as the transition left them)
HandleCurrentState(cs, cg, ns) ==
    IF cs = "main_menu"
    THEN pc' = "menu" /\ next_state' = ns /\ running' = running
    ELSE IF cs \in GameNames
    THEN IF cg.kind # "None"
         THEN pc' = "game" /\ next_state' = ns /\ running' = running
         ELSE pc' = "loop" /\ next_state' = "main_menu" /\ running' = running
    ELSE pc' = "loop" /\ next_state' = ns /\ running' = FALSE

TransitionBranch_FreshEngine ==
    /\ next_state \in GameNames
    /\ engines' = [engines EXCEPT ![MaxEngines] = DecayEngine(DECAY_TIME)]
    /\ current_game' = NewGame(next_state, MaxEngines)
    /\ current_state' = next_state
    /\ HandleCurrentState(next_state, current_game', "None")
    /\ UNCHANGED <<decay_engine, menu, restart_flag, end_screen_shown,
                   end_local, start_local, end_runs>>

\* main.py 235-288 followed by 290-323
TransitionBranch ==
    LET cleaned == IF current_state \in GameNames THEN NoGame ELSE current_game
    IN  IF next_state = "end_screen"
        THEN /\ end_screen_shown' = TRUE
             /\ next_state' = "None"
             /\ pc' = "loop"
             /\ UNCHANGED <<engines, decay_engine, menu, current_game, current_state,
                            running, restart_flag, end_local, start_local, end_runs>>
        ELSE IF next_state \notin ScreenNames
        THEN /\ current_game' = cleaned
             /\ next_state' = "None"
             /\ pc' = "loop"
             /\ UNCHANGED <<engines, decay_engine, menu, current_state, running,
                            restart_flag, end_screen_shown, end_local, start_local,
                            end_runs>>
        ELSE /\ menu' = IF next_state = "main_menu" THEN MainMenu(decay_engine) ELSE menu
             /\ current_game' = IF next_state = "main_menu"
                                THEN cleaned
                                ELSE NewGame(next_state, decay_engine)
             /\ current_state' = next_state
             /\ HandleCurrentState(next_state, current_game', "None")
             /\ UNCHANGED <<engines, decay_engine, restart_flag, end_screen_shown,
                            end_local, start_local, end_runs>>

\* One pass of `while running` up to the point where a screen's loop is
\* entered or the pass ends (continue, or the bottom of the loop)
main_loop ==
    /\ pc = "loop"
    /\ running
    /\ IF restart_flag
       THEN RestartBranch
       ELSE IF ZeroDecayDetected(engines[decay_engine], end_screen_shown)
       THEN ZeroDecayBranch
       ELSE IF next_state # "None"
       THEN TransitionBranch
       ELSE /\ HandleCurrentState(current_state, current_game, next_state)
            /\ UNCHANGED <<engines, decay_engine, menu, current_game, current_state,
                           restart_flag, end_screen_shown, end_local, start_local,
                           end_runs>>
    /\ UNCHANGED <<result, last_event, crossed, frame_calls, call>>

\* main.py 327-330: the loop has ended
DriverExit ==
    /\ pc = "loop"
    /\ ~running
    /\ pc' = "exit"
    /\ end_local' = EndLocal
    /\ UNCHANGED <<engines, driver_vars, result, start_local,
                   last_event, crossed, end_runs, frame_calls, call>>

EndScreenFrame_IgnoresFalse ==
    /\ pc = "end_screen"
    /\ \E delta_time \in EndDeltas, ev \in KeyEvents :
          LET u == run_end_screen(end_local, delta_time, ev)
          IN  /\ end_local' = u.local
              /\ last_event' = ev
              /\ result' = IF u.ret = "continue" THEN "continue" ELSE "end:" \o u.ret
              /\ pc' = CASE u.ret = "continue" -> "end_screen"
                         [] u.ret = "True" -> "start_screen"
                         [] OTHER -> "loop"
              /\ running' = running
              /\ start_local' = IF u.ret = "True" THEN StartLocal ELSE start_local
    /\ crossed' = FALSE
    /\ frame_calls' = <<>>
    /\ UNCHANGED <<engines, decay_engine, menu, current_game, current_state,
                   next_state, restart_flag, end_screen_shown, end_runs, call>>

\* A frame of run_end_screen() and, when it returns, main.py 206-232
EndScreenFrame ==
    /\ pc = "end_screen"
    /\ \E delta_time \in EndDeltas, ev \in KeyEvents :
          LET u == run_end_screen(end_local, delta_time, ev)
          IN  /\ end_local' = u.local
              /\ last_event' = ev
              /\ result' = IF u.ret = "continue" THEN "continue" ELSE "end:" \o u.ret
              /\ pc' = CASE u.ret = "continue" -> "end_screen"
                         [] u.ret = "True" -> "start_screen"
                         [] OTHER -> "loop"
              /\ running' = IF u.ret = "False" THEN FALSE ELSE running
              /\ start_local' = IF u.ret = "True" THEN StartLocal ELSE start_local
    /\ crossed' = FALSE
    /\ frame_calls' = <<>>
    /\ UNCHANGED <<engines, decay_engine, menu, current_game, current_state,
                   next_state, restart_flag, end_screen_shown, end_runs, call>>

\* A frame of run_start_screen(); the locals of a function that has returned
\* are gone.  When it returns at main.py 122: False
\* leaves through sys.exit(), True goes on to 126-161 (the menu is built and
\* the driver's variables are set).  When it returns at main.py 218: False
\* clears `running`; True calls MainMenu.reset_state(), which main_menu.py
\* does not define, so AttributeError ends main() before restart_flag is set.
StartScreenFrame ==
    /\ pc \in {"boot_start", "start_screen"}
    /\ \E delta_time \in StartDeltas, ev \in KeyEvents :
          LET u == run_start_screen(start_local, delta_time, ev)
          IN  /\ start_local' = IF u.ret = "continue" THEN u.local ELSE StartLocal
              /\ last_event' = ev
              /\ result' = IF u.ret = "continue" THEN "continue" ELSE "start:" \o u.ret
              /\ pc' = CASE u.ret = "continue" -> pc
                         [] u.ret = "True" /\ pc = "boot_start" -> "loop"
                         [] u.ret = "True" /\ pc = "start_screen" -> "crashed"
                         [] u.ret = "False" /\ pc = "boot_start" -> "exit"
                         [] OTHER -> "loop"
              /\ running' = IF u.ret = "False" /\ pc = "start_screen" THEN FALSE ELSE running
              /\ menu' = IF u.ret = "True" /\ pc = "boot_start"
                         THEN MainMenu(decay_engine) ELSE menu
    /\ end_local' = EndLocal
    /\ crossed' = FALSE
    /\ frame_calls' = <<>>
    /\ UNCHANGED <<engines, decay_engine, current_game, current_state, next_state,
                   restart_flag, end_screen_shown, end_runs, call>>

Next ==
    \/ StartScreenFrame
    \/ main_loop
    \/ MainMenuFrame
    \/ Game1Frame
    \/ Game2Frame
    \/ Game3Frame
    \/ EndScreenFrame
    \/ DriverExit

Spec == Init /\ [][Next]_vars

\* The frames of the end screen keep coming: its loop has no blocking call
\* and clock.tick(FPS) returns
FairSpec == Spec /\ WF_vars(EndScreenFrame)

-----------------------------------------------------------------------------
(* The engine alone: any sequence of update and modify_decay calls, of any *)
(* sign and size, on a fresh engine; result names the last call.           *)

MaxCallSize == 500

CallDeltas == {0 - MaxCallSize * 1200, 0 - 1200, 0 - 60, 0, 60, 1200, 30000, MaxCallSize * 1200}
CallAmounts == {0 - Pt(MaxCallSize), 0 - Pt(5), 0 - 1, 0, 1, Pt(5), Pt(MaxCallSize)}

InitEngine ==
    /\ pc = "engine"
    /\ engines = [i \in EngineIds |-> IF i = 1 THEN DecayEngine(DECAY_TIME) ELSE NoEngine]
    /\ decay_engine = 1
    /\ menu = MainMenu(0)
    /\ current_game = NoGame
    /\ current_state = "main_menu"
    /\ next_state = "None"
    /\ running = TRUE
    /\ restart_flag = FALSE
    /\ end_screen_shown = FALSE
    /\ result = "none"
    /\ end_local = EndLocal
    /\ start_local = StartLocal
    /\ last_event = "none"
    /\ crossed = FALSE
    /\ end_runs = [i \in EngineIds |-> 0]
    /\ frame_calls = <<>>
    /\ call = NoCall

CallUpdate ==
    /\ pc = "engine"
    /\ \E delta_time \in CallDeltas :
          LET f == Upd(Frame(engines[decay_engine]), delta_time)
          IN  /\ engines' = [engines EXCEPT ![decay_engine] = f.e]
              /\ crossed' = f.crossed
              /\ result' = "update"
              /\ UNCHANGED <<pc, driver_vars, end_local, start_local, last_event,
                             end_runs, frame_calls, call>>

CallModifyDecay ==
    /\ pc = "engine"
    /\ \E amount \in CallAmounts :
          LET f == Mod(Frame(engines[decay_engine]), amount)
          IN  /\ engines' = [engines EXCEPT ![decay_engine] = f.e]
              /\ crossed' = f.crossed
              /\ result' = "modify_decay"
              /\ UNCHANGED <<pc, driver_vars, end_local, start_local, last_event,
                             end_runs, frame_calls, call>>

NextEngine == CallUpdate \/ CallModifyDecay

SpecEngine == InitEngine /\ [][NextEngine]_vars

-----------------------------------------------------------------------------
(* The engine's contract: a caller constructs an engine and calls update   *)
(* and modify_decay with explicit arguments; call holds the argument and   *)
(* the returned value of the last call, result its name.  update divides   *)
(* by decay_time, so a call on an engine whose decay_time is 0 raises      *)
(* ZeroDivisionError at decay_engine.py 42.                                *)

\* update's arguments, in milliseconds, and modify_decay's amounts
ContractDeltas == {0 - 6000, 0, 1200, 5000, 10000, MaxCallSize * 1200}
ContractAmounts == {0 - Pt(2 * MaxCallSize), 0 - Pt(5), 0 - Pt(2), 0, Pt(10), Pt(2 * MaxCallSize)}

\* the arguments whose decrement is a whole number of units
ExactDeltas(e) ==
    IF e.decay_time = 0 THEN ContractDeltas
    ELSE {d \in ContractDeltas : (Pt(100) * d) % (Abs(e.decay_time) * 1000) = 0}

\* decay_time arguments of the constructor
DecayTimes == {10, DECAY_TIME}

InitContract ==
    /\ pc = "contract"
    /\ \E decay_time \in DecayTimes :
          engines = [i \in EngineIds |-> IF i = 1 THEN DecayEngine(decay_time) ELSE NoEngine]
    /\ decay_engine = 1
    /\ menu = MainMenu(0)
    /\ current_game = NoGame
    /\ current_state = "main_menu"
    /\ next_state = "None"
    /\ running = TRUE
    /\ restart_flag = FALSE
    /\ end_screen_shown = FALSE
    /\ result = "none"
    /\ end_local = EndLocal
    /\ start_local = StartLocal
    /\ last_event = "none"
    /\ crossed = FALSE
    /\ end_runs = [i \in EngineIds |-> 0]
    /\ frame_calls = <<>>
    /\ call = NoCall

ContractUpdate ==
    /\ pc = "contract"
    /\ \E delta_time \in ExactDeltas(engines[decay_engine]) :
          IF engines[decay_engine].decay_time = 0
          THEN /\ pc' = "ZeroDivisionError"
               /\ result' = "update"
               /\ call' = [arg |-> delta_time, ret |-> 0]
               /\ UNCHANGED <<engines, crossed>>
          ELSE LET f == Upd(Frame(engines[decay_engine]), delta_time)
               IN  /\ engines' = [engines EXCEPT ![decay_engine] = f.e]
                   /\ crossed' = f.crossed
                   /\ result' = "update"
                   /\ call' = [arg |-> delta_time, ret |-> f.e.decay_percentage]
                   /\ pc' = pc
    /\ UNCHANGED <<driver_vars, end_local, start_local, last_event, end_runs, frame_calls>>

ContractModifyDecay ==
    /\ pc = "contract"
    /\ \E amount \in ContractAmounts :
          LET f == Mod(Frame(engines[decay_engine]), amount)
          IN  /\ engines' = [engines EXCEPT ![decay_engine] = f.e]
              /\ crossed' = f.crossed
              /\ result' = "modify_decay"
              /\ call' = [arg |-> amount, ret |-> f.e.decay_percentage]
    /\ UNCHANGED <<pc, driver_vars, end_local, start_local, last_event, end_runs, frame_calls>>

NextContract == ContractUpdate \/ ContractModifyDecay

SpecContract == InitContract /\ [][NextContract]_vars

\* The constructor called with any decay_time: __init__ stores the argument
\* and checks nothing
ConstructorArgs == {0 - 10, 0, 10}

InitConstruct ==
    /\ pc = "construct"
    /\ engines = [i \in EngineIds |-> NoEngine]
    /\ decay_engine = 1
    /\ menu = MainMenu(0)
    /\ current_game = NoGame
    /\ current_state = "main_menu"
    /\ next_state = "None"
    /\ running = TRUE
    /\ restart_flag = FALSE
    /\ end_screen_shown = FALSE
    /\ result = "none"
    /\ end_local = EndLocal
    /\ start_local = StartLocal
    /\ last_event = "none"
    /\ crossed = FALSE
    /\ end_runs = [i \in EngineIds |-> 0]
    /\ frame_calls = <<>>
    /\ call = NoCall

Construct ==
    /\ pc = "construct"
    /\ \E decay_time \in ConstructorArgs :
          /\ engines' = [engines EXCEPT ![decay_engine] = DecayEngine(decay_time)]
          /\ call' = [arg |-> decay_time, ret |-> 0]
    /\ pc' = "contract"
    /\ result' = "__init__"
    /\ UNCHANGED <<driver_vars, end_local, start_local, last_event, crossed, end_runs,
                   frame_calls>>

NextConstruct == Construct \/ ContractUpdate \/ ContractModifyDecay

SpecConstruct == InitConstruct /\ [][NextConstruct]_vars

-----------------------------------------------------------------------------
(* Game1's synchronisation alone: the blocks do not change, so             *)
(* calculate_grid_decay() returns the same value at every call, and        *)
(* nothing but sync_decay_with_grid touches the engine.                    *)

\* a Game1 whose blocks average to grid_decay_percentage
Game1Grid(engine_id, grid_decay_percentage) ==
    [kind |-> "game1", engine |-> engine_id, update_timer |-> 0,
     grid_decay_percentage |-> grid_decay_percentage]

\* an engine that has been running: reached_zero is true exactly at 0
EngineAt(decay_percentage) ==
    [DecayEngine(DECAY_TIME) EXCEPT !.decay_percentage = decay_percentage,
                                   !.reached_zero = (decay_percentage = 0)]

SyncPercentages == {0, Pt(1), Pt(30) + 7, Pt(50), Pt(100)}
SyncHealths == {0, 13, Pt(30), Pt(50) + 20, Pt(50) + 21, Pt(100)}

InitSync ==
    /\ pc = "sync"
    /\ \E decay_percentage \in SyncPercentages :
          engines = [i \in EngineIds |->
                        IF i = 1 THEN EngineAt(decay_percentage) ELSE NoEngine]
    /\ decay_engine = 1
    /\ menu = MainMenu(0)
    /\ \E grid_decay_percentage \in SyncHealths :
          current_game = Game1Grid(1, grid_decay_percentage)
    /\ current_state = "game1"
    /\ next_state = "None"
    /\ running = TRUE
    /\ restart_flag = FALSE
    /\ end_screen_shown = FALSE
    /\ result = "none"
    /\ end_local = EndLocal
    /\ start_local = StartLocal
    /\ last_event = "none"
    /\ crossed = FALSE
    /\ end_runs = [i \in EngineIds |-> 0]
    /\ frame_calls = <<>>
    /\ call = NoCall

CallSync_Overshoots ==
    /\ pc = "sync"
    /\ LET e == engines[current_game.engine]
           change == current_game.grid_decay_percentage - e.decay_percentage
           f == IF Abs(change) > Pt(1)
                THEN Mod(Enter(Frame(e), "sync_decay_with_grid"), (change * 195) \div 100)
                ELSE Enter(Frame(e), "sync_decay_with_grid")
       IN  /\ engines' = [engines EXCEPT ![current_game.engine] = f.e]
           /\ crossed' = f.crossed
           /\ frame_calls' = f.calls
    /\ result' = "sync_decay_with_grid"
    /\ UNCHANGED <<pc, driver_vars, end_local, start_local, last_event, end_runs, call>>

\* one call of Game1.sync_decay_with_grid()
CallSync ==
    /\ pc = "sync"
    /\ LET f == sync_decay_with_grid(Frame(engines[current_game.engine]),
                                     current_game.grid_decay_percentage)
       IN  /\ engines' = [engines EXCEPT ![current_game.engine] = f.e]
           /\ crossed' = f.crossed
           /\ frame_calls' = f.calls
    /\ result' = "sync_decay_with_grid"
    /\ UNCHANGED <<pc, driver_vars, end_local, start_local, last_event, end_runs, call>>

NextSync == CallSync

SpecSync == InitSync /\ [][NextSync]_vars

\* the calls are repeated: Game1.update makes one every update_interval
FairSpecSync == SpecSync /\ WF_vars(CallSync)

-----------------------------------------------------------------------------
(* games/game3.py, the sequence game itself.  Game3.update calls           *)
(* update_game, then handle_key_press for every KEYDOWN other than ESC,    *)
(* then start_new_level when there is no sequence yet; what update_game    *)
(* and handle_key_press return is what Game3_update above hands to         *)
(* modify_decay.  Here the three steps of a frame are taken one by one on  *)
(* the game object; call holds the key code and the returned change.       *)
(* Clock comparisons (current_time >= a deadline) are the input time_up.   *)
(* A key code is the key's index in self.keys for the mapped keys.  The    *)
(* key of a "Press only" item is only displayed, it is drawn as key 0.     *)

SHOWING_SEQUENCE == 0
WAITING_FOR_PLAYER == 1
SHOWING_RESULT == 2
K_SPACE == 32

\* how many of the keys of self.keys the sequences and the player use
MaxKeys == 2
\* the level at which the game is no longer followed
MaxLevel == 2

Game3Keys == 0..(MaxKeys - 1)
UnmappedKeys == {13}
KeyCodes == Game3Keys \cup {K_SPACE} \cup UnmappedKeys

SequenceItem(key_idx, should_press) == [key_idx |-> key_idx, should_press |-> should_press]

SequenceItems == {SequenceItem(k, TRUE) : k \in Game3Keys} \cup {SequenceItem(0, FALSE)}

\* the random draws of one start_new_level call at the given level
Draws(level) == [1..Max(3, level + 2) -> SequenceItems]

\* Game3.__init__, lines 373-399
Game3Sim(engine_id) ==
    [kind |-> "game3", engine |-> engine_id, update_timer |-> 0,
     state |-> SHOWING_SEQUENCE, sequence |-> <<>>, player_keys |-> <<>>,
     expected_player_keys |-> <<>>, sequence_index |-> 0, level |-> 1,
     is_timeout_active |-> FALSE, result_message |-> ""]

\* items are the draws of the for loop, key_idx the draw of line 461
start_new_level(g, is_reset, items, key_idx) ==
    LET level == IF is_reset THEN 1 ELSE g.level
        ShouldPress(item) == item.should_press
        pressed == SelectSeq(items, ShouldPress)
        expected == [i \in 1..Len(pressed) |-> pressed[i].key_idx]
    IN  [g EXCEPT !.level = level,
                  !.sequence = IF expected = <<>>
                               THEN Append(items, SequenceItem(key_idx, TRUE))
                               ELSE items,
                  !.expected_player_keys = IF expected = <<>> THEN <<key_idx>> ELSE expected,
                  !.player_keys = <<>>,
                  !.sequence_index = 0,
                  !.state = SHOWING_SEQUENCE]

Outcome(g, message, change) ==
    [game |-> [g EXCEPT !.result_message = message, !.state = SHOWING_RESULT],
     ret |-> change]

check_player_completion(g) ==
    LET n == Len(g.player_keys)
        m == Len(g.expected_player_keys)
        correct == \A i \in 1..n : g.player_keys[i] = g.expected_player_keys[i]
    IN  IF m = 0
        THEN IF n = 0
             THEN Outcome(g, "Correct", correct_decay_bonus)
             ELSE Outcome(g, "Wrong", wrong_decay_penalty)
        ELSE IF n < m
        THEN IF correct
             THEN Outcome(g, "Incorrect", wrong_decay_penalty \div 2)
             ELSE Outcome(g, "Wrong", wrong_decay_penalty)
        ELSE IF n = m
        THEN IF correct
             THEN Outcome(g, "Correct", correct_decay_bonus)
             ELSE Outcome(g, "Wrong", wrong_decay_penalty)
        ELSE [game |-> g, ret |-> 0]

handle_key_press_NoLengthCheck(g, key_code) ==
    IF g.state # WAITING_FOR_PLAYER THEN [game |-> g, ret |-> 0]
    ELSE IF key_code = K_SPACE THEN check_player_completion(g)
    ELSE IF key_code \notin Game3Keys THEN [game |-> g, ret |-> 0]
    ELSE LET g2 == [g EXCEPT !.player_keys = Append(@, key_code),
                             !.is_timeout_active = TRUE]
             n == Len(g2.player_keys)
             m == Len(g2.expected_player_keys)
         IN  IF n > m THEN [game |-> g2, ret |-> Pt(1)]
             ELSE IF key_code # g2.expected_player_keys[n]
             THEN Outcome(g2, "Wrong", wrong_decay_penalty)
             ELSE IF n = m
             THEN Outcome(g2, "Correct", correct_decay_bonus)
             ELSE [game |-> g2, ret |-> Pt(1)]

handle_key_press_WrongKeyStays(g, key_code) ==
    IF g.state # WAITING_FOR_PLAYER THEN [game |-> g, ret |-> 0]
    ELSE IF key_code = K_SPACE THEN check_player_completion(g)
    ELSE IF key_code \notin Game3Keys THEN [game |-> g, ret |-> 0]
    ELSE LET g2 == [g EXCEPT !.player_keys = Append(@, key_code),
                             !.is_timeout_active = TRUE]
             n == Len(g2.player_keys)
             m == Len(g2.expected_player_keys)
         IN  IF m = 0 THEN Outcome(g2, "Wrong", wrong_decay_penalty)
             ELSE IF n > m THEN Outcome(g2, "Wrong", wrong_decay_penalty)
             ELSE IF key_code # g2.expected_player_keys[n]
             THEN [game |-> g2, ret |-> wrong_decay_penalty]
             ELSE IF n = m
             THEN Outcome(g2, "Correct", correct_decay_bonus)
             ELSE [game |-> g2, ret |-> Pt(1)]

handle_key_press(g, key_code) ==
    IF g.state # WAITING_FOR_PLAYER THEN [game |-> g, ret |-> 0]
    ELSE IF key_code = K_SPACE THEN check_player_completion(g)
    ELSE IF key_code \notin Game3Keys THEN [game |-> g, ret |-> 0]
    ELSE LET g2 == [g EXCEPT !.player_keys = Append(@, key_code),
                             !.is_timeout_active = TRUE]
             n == Len(g2.player_keys)
             m == Len(g2.expected_player_keys)
         IN  IF m = 0 THEN Outcome(g2, "Wrong", wrong_decay_penalty)
             ELSE IF n > m THEN Outcome(g2, "Wrong", wrong_decay_penalty)
             ELSE IF key_code # g2.expected_player_keys[n]
             THEN Outcome(g2, "Wrong", wrong_decay_penalty)
             ELSE IF n = m
             THEN Outcome(g2, "Correct", correct_decay_bonus)
             ELSE [game |-> g2, ret |-> Pt(1)]

\* the level start_new_level would build when update_game is called now
NextLevel(g, time_up) ==
    IF g.state = SHOWING_RESULT /\ time_up
    THEN IF g.result_message = "Correct" THEN g.level + 1 ELSE 1
    ELSE 0

update_game(g, time_up, items, key_idx) ==
    IF g.state = SHOWING_SEQUENCE
    THEN IF ~time_up THEN [game |-> g, ret |-> 0]
         ELSE IF g.sequence_index < Len(g.sequence)
         THEN [game |-> [g EXCEPT !.sequence_index = @ + 1], ret |-> 0]
         ELSE [game |-> [g EXCEPT !.state = WAITING_FOR_PLAYER,
                                  !.is_timeout_active = FALSE],
               ret |-> 0]
    ELSE IF g.state = WAITING_FOR_PLAYER
    THEN IF g.is_timeout_active /\ time_up
         THEN LET c == check_player_completion(g)
              IN  [game |-> [c.game EXCEPT !.is_timeout_active = FALSE], ret |-> c.ret]
         ELSE [game |-> g, ret |-> 0]
    ELSE IF ~time_up THEN [game |-> g, ret |-> 0]
         ELSE IF g.result_message = "Correct"
         THEN [game |-> start_new_level([g EXCEPT !.level = @ + 1], FALSE, items, key_idx),
               ret |-> 0]
         ELSE [game |-> start_new_level(g, TRUE, items, key_idx), ret |-> 0]

InitGame3 ==
    /\ pc = "update_game"
    /\ engines = [i \in EngineIds |-> IF i = 1 THEN DecayEngine(DECAY_TIME) ELSE NoEngine]
    /\ decay_engine = 1
    /\ menu = MainMenu(1)
    /\ current_game = Game3Sim(1)
    /\ current_state = "game3"
    /\ next_state = "None"
    /\ running = TRUE
    /\ restart_flag = FALSE
    /\ end_screen_shown = FALSE
    /\ result = "none"
    /\ end_local = EndLocal
    /\ start_local = StartLocal
    /\ last_event = "none"
    /\ crossed = FALSE
    /\ end_runs = [i \in EngineIds |-> 0]
    /\ frame_calls = <<>>
    /\ call = NoCall

\* Game3.update, line 889: update_game.  next_item_time is 0 until the first
\* start_new_level, so the first comparison is true.
CallUpdateGame ==
    /\ pc = "update_game"
    /\ \E time_up \in (IF current_game.sequence = <<>> THEN {TRUE} ELSE BOOLEAN) :
          LET level == NextLevel(current_game, time_up)
          IN  /\ level <= MaxLevel
              /\ \E items \in (IF level > 0 THEN Draws(level) ELSE {<<>>}),
                    key_idx \in (IF level > 0 THEN Game3Keys ELSE {0}) :
                    LET u == update_game(current_game, time_up, items, key_idx)
                    IN  /\ current_game' = u.game
                        /\ call' = [arg |-> 0, ret |-> u.ret]
    /\ pc' = "events"
    /\ result' = "update_game"
    /\ UNCHANGED <<engines, decay_engine, menu, current_state, next_state, running,
                   restart_flag, end_screen_shown, end_local, start_local, last_event,
                   crossed, end_runs, frame_calls>>

\* Game3.update, lines 897-903: a KEYDOWN other than ESC
CallHandleKeyPress ==
    /\ pc = "events"
    /\ \E key_code \in KeyCodes :
          LET u == handle_key_press(current_game, key_code)
          IN  /\ current_game' = u.game
              /\ call' = [arg |-> key_code, ret |-> u.ret]
    /\ result' = "handle_key_press"
    /\ UNCHANGED <<pc, engines, decay_engine, menu, current_state, next_state, running,
                   restart_flag, end_screen_shown, end_local, start_local, last_event,
                   crossed, end_runs, frame_calls>>

\* Game3.update, lines 913-917: the events are done
UpdateReturns ==
    /\ pc = "events"
    /\ IF current_game.sequence = <<>>
       THEN \E items \in Draws(current_game.level), key_idx \in Game3Keys :
               current_game' = start_new_level(current_game, FALSE, items, key_idx)
       ELSE current_game' = current_game
    /\ pc' = "update_game"
    /\ result' = "update"
    /\ call' = NoCall
    /\ UNCHANGED <<engines, decay_engine, menu, current_state, next_state, running,
                   restart_flag, end_screen_shown, end_local, start_local, last_event,
                   crossed, end_runs, frame_calls>>

NextGame3 == CallUpdateGame \/ CallHandleKeyPress \/ UpdateReturns

SpecGame3 == InitGame3 /\ [][NextGame3]_vars

-----------------------------------------------------------------------------
(* games/game1.py, the grid itself: the 91 blocks that Game1.__init__      *)
(* creates from the engine's percentage, and the calls that read or change *)
(* them.  decay_value is in thousandths, decay_speed in hundredths per     *)
(* second, delta_time in milliseconds, global_decay_factor in tenths.      *)
(* random.uniform is a draw handed in from outside.  The calls are made    *)
(* on the first and the last block; click_count is followed up to          *)
(* MaxClicks.                                                              *)

MaxClicks == 2

\* Block.__init__; int() of a value that is not negative is its floor
Block(initial_decay, decay_speed) ==
    [decay_value |-> initial_decay, decay_speed |-> decay_speed,
     current_stage |-> Min(5, (initial_decay * 6) \div 1000)]

rejuvenate(b) ==
    [block |-> [b EXCEPT !.decay_value = 0, !.current_stage = 0],
     ret |-> b.decay_value]

update_decay_KeepsStage(b, delta_time, global_decay_factor) ==
    LET raw == b.decay_value
                 + (b.decay_speed * delta_time * global_decay_factor * 2) \div 10000
        v == Max(0, Min(1000, raw))
    IN  [block |-> [b EXCEPT !.decay_value = v],
         ret |-> Min(5, (v * 6) \div 1000) # b.current_stage]

update_decay(b, delta_time, global_decay_factor) ==
    LET raw == b.decay_value
                 + (b.decay_speed * delta_time * global_decay_factor * 2) \div 10000
        v == Max(0, Min(1000, raw))
        stage == Min(5, (v * 6) \div 1000)
    IN  [block |-> [b EXCEPT !.decay_value = v, !.current_stage = stage],
         ret |-> stage # b.current_stage]

\* the loop of Game1.__init__ (and create_grid): draws[i] is block i's
\* random.uniform(0.7, 1.3), in hundredths, and its decay_speed
create_grid(initial_decay, draws) ==
    [i \in 1..(GRID_ROWS * GRID_COLS) |->
        Block(Max(0, Min(1000, (initial_decay * draws[i].factor) \div 100)),
              draws[i].decay_speed)]

\* Game1.__init__ with its blocks: only decay_percentage is read
Game1Blocks(engine_id, e, draws) ==
    [kind |-> "game1", engine |-> engine_id, update_timer |-> 0,
     blocks |-> create_grid(1000 - e.decay_percentage \div 2, draws),
     click_count |-> 0]

RECURSIVE total_decay(_, _)
total_decay(blocks, n) ==
    IF n = 0 THEN 0 ELSE blocks[n].decay_value + total_decay(blocks, n - 1)

calculate_grid_decay_Mean(g) ==
    IF g.blocks = <<>> THEN 0
    ELSE (Pt(100) * total_decay(g.blocks, Len(g.blocks))) \div (Len(g.blocks) * 1000)

calculate_grid_decay(g) ==
    IF g.blocks = <<>> THEN 0
    ELSE (Pt(100) * (Len(g.blocks) * 1000 - total_decay(g.blocks, Len(g.blocks))))
           \div (Len(g.blocks) * 1000)

\* the blocks the calls are made on, and pointer positions over no block
TouchedBlocks == {1, GRID_ROWS * GRID_COLS}
NoBlock == 0

RandomDraws ==
    {[factor |-> 70, decay_speed |-> 5], [factor |-> 100, decay_speed |-> 10],
     [factor |-> 130, decay_speed |-> 10]}

\* the draws of one construction: the blocks after the first share a draw
GridDraws ==
    {[i \in 1..(GRID_ROWS * GRID_COLS) |-> IF i = 1 THEN d1 ELSE d0] :
       d0 \in RandomDraws, d1 \in RandomDraws}

GridPercentages == {Pt(10), Pt(50), Pt(100)}

\* update_decay's arguments <<delta_time, global_decay_factor>>
DecayArgs == {<<0 - 40000, 15>>, <<40000, 15>>}

InitGrid ==
    /\ pc = "construct_grid"
    /\ \E decay_percentage \in GridPercentages :
          engines = [i \in EngineIds |->
                        IF i = 1 THEN EngineAt(decay_percentage) ELSE NoEngine]
    /\ decay_engine = 1
    /\ menu = MainMenu(1)
    /\ current_game = NoGame
    /\ current_state = "main_menu"
    /\ next_state = "game1"
    /\ running = TRUE
    /\ restart_flag = FALSE
    /\ end_screen_shown = FALSE
    /\ result = "none"
    /\ end_local = EndLocal
    /\ start_local = StartLocal
    /\ last_event = "none"
    /\ crossed = FALSE
    /\ end_runs = [i \in EngineIds |-> 0]
    /\ frame_calls = <<>>
    /\ call = NoCall

Game1Init_Seeds ==
    /\ pc = "construct_grid"
    /\ \E draws \in GridDraws :
          LET g == Game1Blocks(decay_engine, engines[decay_engine], draws)
              change == calculate_grid_decay(g) - engines[decay_engine].decay_percentage
              f == Mod(Enter(Frame(engines[decay_engine]), "sync_decay_with_grid"),
                       (change * 5) \div 100)
          IN  /\ current_game' = g
              /\ engines' = [engines EXCEPT ![decay_engine] = f.e]
              /\ frame_calls' = f.calls
    /\ pc' = "grid"
    /\ current_state' = "game1"
    /\ next_state' = "None"
    /\ result' = "__init__"
    /\ UNCHANGED <<decay_engine, menu, running, restart_flag, end_screen_shown,
                   end_local, start_local, last_event, crossed, end_runs, call>>

\* main.py 268: Game1(decay_engine, ...) is constructed
Game1Init ==
    /\ pc = "construct_grid"
    /\ \E draws \in GridDraws :
          current_game' = Game1Blocks(decay_engine, engines[decay_engine], draws)
    /\ pc' = "grid"
    /\ current_state' = "game1"
    /\ next_state' = "None"
    /\ result' = "__init__"
    /\ UNCHANGED <<engines, decay_engine, menu, running, restart_flag, end_screen_shown,
                   end_local, start_local, last_event, crossed, end_runs, frame_calls,
                   call>>

\* block.update_decay(delta_time, global_decay_factor) on one block
CallUpdateDecay ==
    /\ pc = "grid"
    /\ \E i \in TouchedBlocks, args \in DecayArgs :
          LET u == update_decay(current_game.blocks[i], args[1], args[2])
          IN  /\ current_game' = [current_game EXCEPT !.blocks[i] = u.block]
              /\ call' = [arg |-> <<i, args[1], args[2]>>, ret |-> u.ret]
    /\ result' = "update_decay"
    /\ frame_calls' = <<>>
    /\ UNCHANGED <<pc, engines, decay_engine, menu, current_state, next_state, running,
                   restart_flag, end_screen_shown, end_local, start_local, last_event,
                   crossed, end_runs>>

\* handle_click(pos): the pointer is over block i, or over no block
CallHandleClick ==
    /\ pc = "grid"
    /\ current_game.click_count < MaxClicks
    /\ \E i \in TouchedBlocks \cup {NoBlock} :
          IF i = NoBlock
          THEN LET f == handle_click(Frame(engines[current_game.engine]), "miss", 0)
               IN  /\ current_game' = current_game
                   /\ engines' = [engines EXCEPT ![current_game.engine] = f.e]
                   /\ crossed' = f.crossed
                   /\ frame_calls' = f.calls
                   /\ call' = [arg |-> i, ret |-> FALSE]
          ELSE LET r == rejuvenate(current_game.blocks[i])
                   f == handle_click(Frame(engines[current_game.engine]), "block", r.ret)
               IN  /\ current_game' = [current_game EXCEPT !.blocks[i] = r.block,
                                                           !.click_count = @ + 1]
                   /\ engines' = [engines EXCEPT ![current_game.engine] = f.e]
                   /\ crossed' = f.crossed
                   /\ frame_calls' = f.calls
                   /\ call' = [arg |-> i, ret |-> TRUE]
    /\ result' = "handle_click"
    /\ UNCHANGED <<pc, decay_engine, menu, current_state, next_state, running,
                   restart_flag, end_screen_shown, end_local, start_local, last_event,
                   end_runs>>

CallCalculateGridDecay ==
    /\ pc = "grid"
    /\ call' = [arg |-> 0, ret |-> calculate_grid_decay(current_game)]
    /\ result' = "calculate_grid_decay"
    /\ frame_calls' = <<>>
    /\ UNCHANGED <<pc, engines, decay_engine, menu, current_game, current_state,
                   next_state, running, restart_flag, end_screen_shown, end_local,
                   start_local, last_event, crossed, end_runs>>

NextGrid == Game1Init \/ CallUpdateDecay \/ CallHandleClick \/ CallCalculateGridDecay

SpecGrid == InitGrid /\ [][NextGrid]_vars

-----------------------------------------------------------------------------
(* Properties *)

Percentage == engines[decay_engine].decay_percentage
ReachedZero == engines[decay_engine].reached_zero

\* C1: after every update or modify_decay call, of any sign and size, on an
\* engine that started fresh, 0.0 <= decay_percentage <= 100.0.
C1_PercentageInRange == Percentage >= 0 /\ Percentage <= Pt(100)

\* an update call has just taken the percentage down to the floor
C1_Witness == pc = "engine" /\ result = "update" /\ crossed /\ Percentage = 0

\* C2: reached_zero goes false->true exactly on a call that takes the
\* percentage from positive to 0, goes true->false exactly on a call that
\* leaves it positive, and after every call it is true iff the percentage is 0.
C2_ReachedZeroEdge ==
    [][LET e == engines[decay_engine]
           e2 == engines'[decay_engine]
       IN  /\ (~e.reached_zero /\ e2.reached_zero)
                 <=> (e.decay_percentage > 0 /\ e2.decay_percentage = 0)
           /\ (e.reached_zero /\ ~e2.reached_zero)
                 <=> (e.reached_zero /\ e2.decay_percentage > 0)
           /\ e2.reached_zero <=> (e2.decay_percentage = 0)]_vars

\* a modify_decay call has just latched the flag
C2_Witness == pc = "engine" /\ result = "modify_decay" /\ crossed /\ ReachedZero

\* C3: a pass of the driver loop that starts with decay_percentage <= 0 and
\* the end screen not yet shown starts the end screen, before any pending
\* transition and before any further frame of the menu or a mini-game.
C3_ZeroCrossingOverride ==
    [][(pc = "loop" /\ running /\ Percentage <= 0 /\ ~end_screen_shown)
          => (/\ pc' = "end_screen"
              /\ end_screen_shown'
              /\ current_state' = current_state
              /\ engines' = engines)]_vars

\* the end screen has just been started from a mini-game
C3_Witness ==
    /\ pc = "end_screen"
    /\ end_local = EndLocal
    /\ current_state \in GameNames
    /\ result = "end_screen"

\* C4: when reached_zero became true at some point during a frame of the
\* active screen, that frame makes run() return "end_screen", so the driver
\* starts the end screen before the screen runs another frame.
C4_NoCrossingMissed == crossed => result = "end_screen"

C6_SessionReset ==
    (result = "start:True" /\ \E i \in EngineIds : end_runs[i] > 0)
       => /\ pc \in {"loop", "menu"}
          /\ \/ restart_flag
             \/ /\ current_state = "main_menu"
                /\ engines[decay_engine] = DecayEngine(DECAY_TIME)
                /\ current_game = NoGame
                /\ next_state = "None"
                /\ ~end_screen_shown

\* C7: a frame of MainMenu.run, Game1.run, Game2.run or Game3.run returns
\* "end_screen" exactly when the frame's update left decay_percentage <= 0,
\* whatever else the frame asked for; otherwise it returns None, a state
\* name, or goes round.
C7_RunLoopZeroCheck ==
    [][(pc \in {"menu", "game"})
          => LET held == IF pc = "menu" THEN menu.engine ELSE current_game.engine
                 p2 == engines'[held].decay_percentage
             IN  /\ (result' = "end_screen") <=> (p2 <= 0)
                 /\ p2 > 0 => result' \in {"None", "continue"} \cup ScreenNames
                 /\ (p2 > 0 /\ last_event' = "quit") => result' = "None"
                 /\ (pc' = pc) <=> (result' = "continue")]_vars

\* a frame that handled QUIT and reached zero returned "end_screen"
C7_Witness == pc = "loop" /\ result = "end_screen" /\ last_event = "quit"

\* C8: a state name returned by run() at a positive percentage becomes
\* next_state, and the next pass of the driver loop makes it current_state
\* with a newly built screen on the driver's engine and enters that screen;
\* any other returned value leaves current_state and next_state alone.
C8_HonorReturnedState ==
    [][/\ (pc \in {"menu", "game"} /\ pc' = "loop" /\ result' \in ScreenNames)
          => (/\ next_state' = result'
              /\ current_state' = current_state
              /\ engines'[decay_engine].decay_percentage > 0)
       /\ (pc = "loop" /\ running /\ Percentage > 0 /\ next_state \in ScreenNames)
          => (/\ current_state' = next_state
              /\ next_state' = "None"
              /\ engines' = engines
              /\ decay_engine' = decay_engine
              /\ IF next_state = "main_menu"
                 THEN pc' = "menu" /\ menu' = MainMenu(decay_engine)
                 ELSE pc' = "game" /\ current_game' = NewGame(next_state, decay_engine))
       /\ (pc \in {"menu", "game"} /\ pc' = "loop" /\ result' \notin ScreenNames)
          => (current_state' = current_state /\ next_state' = next_state)]_vars

\* the menu returned "game2" and Game2 is now the running screen
C8_Witness ==
    /\ pc = "game"
    /\ result = "game2"
    /\ current_state = "game2"
    /\ current_game = Game2(decay_engine)

\* C9: run_end_screen returns False exactly on ESC or window close, and the
\* driver then stops; it returns True only after Enter or after 30 seconds,
\* and the driver then runs the start screen; and it always returns.
C9_EndScreenEnds ==
    /\ [][(pc = "end_screen")
             => (/\ (result' = "end:False") <=> (last_event' \in {"esc", "quit"})
                 /\ result' = "end:False" => (pc' = "loop" /\ ~running')
                 /\ result' = "end:True"
                       => (/\ pc' = "start_screen"
                           /\ \/ end_local'.return_pressed
                              \/ end_local'.elapsed >= AUTO_RESET_TIME * 1000))]_vars
    /\ (pc = "end_screen") ~> (pc # "end_screen")

\* the end screen returned True on its timer, Enter never pressed
C9_Witness ==
    /\ pc = "start_screen"
    /\ result = "end:True"
    /\ ~end_local.return_pressed
    /\ end_local.elapsed >= AUTO_RESET_TIME * 1000

\* C10 as stated: ESC in a mini-game at a positive percentage makes main_menu
\* the next state on the same engine; ESC in the main menu, the start screen
\* or the end screen ends the driver loop.
C10_EscMapping ==
    [][/\ (pc = "game" /\ last_event' = "esc"
             /\ engines'[current_game.engine].decay_percentage > 0)
          => (pc' = "loop" /\ running' /\ next_state' = "main_menu")
       /\ (pc = "loop" /\ running /\ next_state = "main_menu" /\ last_event = "esc")
          => (pc' = "menu" /\ current_state' = "main_menu"
              /\ menu' = MainMenu(decay_engine) /\ engines' = engines)
       /\ (pc = "menu" /\ last_event' = "esc") => (pc' = "loop" /\ ~running')
       /\ (pc \in {"start_screen", "end_screen"} /\ last_event' = "esc")
          => (pc' = "loop" /\ ~running')
       /\ (pc = "boot_start" /\ last_event' = "esc") => pc' = "exit"
       /\ (pc = "loop" /\ ~running) => pc' = "exit"]_vars

\* C10 amended: as C10, but ESC in the main menu ends the driver loop only
\* when that frame's update left the percentage positive.
C10_EscMappingAmended ==
    [][/\ (pc = "game" /\ last_event' = "esc"
             /\ engines'[current_game.engine].decay_percentage > 0)
          => (pc' = "loop" /\ running' /\ next_state' = "main_menu")
       /\ (pc = "loop" /\ running /\ next_state = "main_menu" /\ last_event = "esc")
          => (pc' = "menu" /\ current_state' = "main_menu"
              /\ menu' = MainMenu(decay_engine) /\ engines' = engines)
       /\ (pc = "menu" /\ last_event' = "esc"
             /\ engines'[menu.engine].decay_percentage > 0)
          => (pc' = "loop" /\ ~running')
       /\ (pc = "menu" /\ last_event' = "esc"
             /\ engines'[menu.engine].decay_percentage <= 0)
          => (pc' = "loop" /\ running' /\ result' = "end_screen")
       /\ (pc \in {"start_screen", "end_screen"} /\ last_event' = "esc")
          => (pc' = "loop" /\ ~running')
       /\ (pc = "boot_start" /\ last_event' = "esc") => pc' = "exit"
       /\ (pc = "loop" /\ ~running) => pc' = "exit"]_vars

\* ESC in a mini-game brought the driver back into the main menu
C10_Witness ==
    /\ pc = "menu"
    /\ last_event = "esc"
    /\ result = "main_menu"
    /\ current_state = "main_menu"
    /\ Percentage > 0

\* the threshold policy: values <= 0 become 0, values > 100 become 100
Clamp(p) == IF p <= 0 THEN 0 ELSE IF p > Pt(100) THEN Pt(100) ELSE p

\* C11: update(delta) sets decay_percentage to
\* clamp(p - (100/decay_time)*delta) and returns it; with decay_time 10,
\* update(5.0) from 100 gives 50.0 and update(10.0) from there gives 0.0 with
\* reached_zero true.
C11_UpdateArithmetic ==
    [][(result' = "update" /\ pc' = "contract")
          => LET e == engines[decay_engine]
                 e2 == engines'[decay_engine]
             IN  /\ e2.decay_percentage
                       = Clamp(e.decay_percentage
                                  - (Pt(100) * call'.arg) \div (e.decay_time * 1000))
                 /\ call'.ret = e2.decay_percentage
                 /\ e2.decay_time = e.decay_time
                 /\ (e.decay_time = 10 /\ e.decay_percentage = Pt(100) /\ call'.arg = 5000)
                       => e2.decay_percentage = Pt(50)
                 /\ (e.decay_time = 10 /\ e.decay_percentage = Pt(50) /\ call'.arg = 10000)
                       => (e2.decay_percentage = 0 /\ e2.reached_zero)]_vars

\* update(10.0) on the decay_time 10 engine has just taken it to 0.0
C11_Witness ==
    /\ pc = "contract"
    /\ result = "update"
    /\ call = [arg |-> 10000, ret |-> 0]
    /\ crossed
    /\ engines[decay_engine].decay_time = 10
    /\ ReachedZero

\* C12: modify_decay(amount) sets decay_percentage to clamp(p + amount) with
\* update's threshold policy (<= 0 becomes 0 and reached_zero is true, > 0 is
\* capped at 100 and reached_zero is false) and returns it; from 2.0,
\* modify_decay(-5.0) gives 0.0 with reached_zero true, and modify_decay(10.0)
\* from there gives 10.0 with reached_zero false.
C12_ModifyArithmetic ==
    [][(result' = "modify_decay" /\ pc' = "contract")
          => LET e == engines[decay_engine]
                 e2 == engines'[decay_engine]
             IN  /\ e2.decay_percentage = Clamp(e.decay_percentage + call'.arg)
                 /\ e2.reached_zero <=> (e.decay_percentage + call'.arg <= 0)
                 /\ call'.ret = e2.decay_percentage
                 /\ e2.decay_time = e.decay_time
                 /\ (e.decay_percentage = Pt(2) /\ call'.arg = 0 - Pt(5))
                       => (e2.decay_percentage = 0 /\ e2.reached_zero /\ crossed')
                 /\ (e.decay_percentage = 0 /\ e.reached_zero /\ call'.arg = Pt(10))
                       => (e2.decay_percentage = Pt(10) /\ ~e2.reached_zero)]_vars

\* modify_decay(10.0) has just lifted an engine off 0.0
C12_Witness ==
    /\ pc = "contract"
    /\ result = "modify_decay"
    /\ call = [arg |-> Pt(10), ret |-> Pt(10)]
    /\ ~ReachedZero

\* C13: on an engine at 0.0 with reached_zero true, a modify_decay call with
\* a non-positive amount or an update call with a non-negative delta leaves
\* the percentage at 0.0 and reached_zero true and does not signal the
\* crossing again.
C13_ZeroClampIdempotent ==
    [][(/\ pc' = "contract"
        /\ Percentage = 0
        /\ ReachedZero
        /\ \/ result' = "modify_decay" /\ call'.arg <= 0
           \/ result' = "update" /\ call'.arg >= 0)
          => (/\ engines'[decay_engine].decay_percentage = 0
              /\ engines'[decay_engine].reached_zero
              /\ ~crossed')]_vars

\* modify_decay(-1000) was called on an engine that was already at 0.0
C13_Witness ==
    /\ pc = "contract"
    /\ result = "modify_decay"
    /\ call = [arg |-> 0 - Pt(2 * MaxCallSize), ret |-> 0]
    /\ ReachedZero
    /\ ~crossed

\* C14 as stated: reached_zero is not true after two successive calls unless
\* a sample with a positive percentage lies between them.
C14_NoConsecutiveZeroSamples ==
    [][(pc' = "contract" /\ result' \in {"update", "modify_decay"})
          => ~(ReachedZero /\ engines'[decay_engine].reached_zero)]_vars

\* C14 amended: the crossing is signalled (reached_zero goes false->true)
\* only by a call made at a positive percentage, so two signals are always
\* separated by a positive sample; the flag itself stays true from call to
\* call for as long as the percentage stays 0.0.
C14_SignalNeedsPositiveSample ==
    [][(pc' = "contract" /\ result' \in {"update", "modify_decay"})
          => /\ crossed' => (Percentage > 0 /\ ~ReachedZero)
             /\ (ReachedZero /\ engines'[decay_engine].decay_percentage = 0)
                   => (engines'[decay_engine].reached_zero /\ ~crossed')]_vars

\* an update call at 0.0 has left reached_zero true without a new signal
C14_Witness ==
    /\ pc = "contract"
    /\ result = "update"
    /\ call.arg > 0
    /\ ReachedZero
    /\ ~crossed

\* the distance between the grid's health and the engine's percentage
GridDistance == Abs(current_game.grid_decay_percentage - Percentage)

\* C15: with the grid's health fixed at H, every sync_decay_with_grid call
\* leaves decay_percentage between its old value and H (it moves toward H and
\* never past it), strictly nearer while the distance is above 1.0, and
\* unchanged once the distance is at most 1.0; and the distance does become
\* at most 1.0 and stays so.
C15_SyncConverges ==
    /\ [][(pc = "sync")
             => LET H == current_game.grid_decay_percentage
                    p2 == engines'[decay_engine].decay_percentage
                IN  /\ Percentage <= H => (Percentage <= p2 /\ p2 <= H)
                    /\ Percentage >= H => (H <= p2 /\ p2 <= Percentage)
                    /\ GridDistance > Pt(1) => Abs(H - p2) < GridDistance
                    /\ GridDistance <= Pt(1) => engines' = engines]_vars
    /\ <>[](GridDistance <= Pt(1))

\* the calls have taken an engine that was more than 1.0 away to within 1.0
C15_Witness ==
    /\ pc = "sync"
    /\ frame_calls = <<"sync_decay_with_grid", "modify_decay">>
    /\ GridDistance <= Pt(1)

\* C19: one sync_decay_with_grid call with diff = grid health - percentage:
\* when |diff| > 1.0 the engine gets exactly modify_decay(diff * 0.05), which
\* does not take it to the grid value; when |diff| <= 1.0 the engine is left
\* as it is; the game's blocks are not changed.
C19_SyncStep ==
    [][(pc = "sync")
          => LET diff == current_game.grid_decay_percentage - Percentage
                 e2 == engines'[decay_engine]
             IN  /\ current_game' = current_game
                 /\ IF Abs(diff) > Pt(1)
                    THEN /\ frame_calls' = <<"sync_decay_with_grid", "modify_decay">>
                         /\ e2 = modify_decay(engines[decay_engine], (diff * 5) \div 100)
                         /\ e2.decay_percentage = Clamp(Percentage + (diff * 5) \div 100)
                         /\ e2.decay_percentage # current_game.grid_decay_percentage
                    ELSE /\ frame_calls' = <<"sync_decay_with_grid">>
                         /\ engines' = engines]_vars

\* a damped step has been applied and the engine is still more than 1.0 away
C19_Witness ==
    /\ pc = "sync"
    /\ frame_calls = <<"sync_decay_with_grid", "modify_decay">>
    /\ GridDistance > Pt(1)
    /\ Percentage > 0

\* C16: in the calls of one frame, the natural decay (update) is made once
\* and before every interaction (a click, the collisions, the sequence game,
\* a key press), and every reconciliation (sync_decay_with_grid) is made
\* after the update and after every interaction.
C16_FrameOrdering ==
    LET Interactions == {"handle_click", "update_blocks", "update_game", "handle_key_press"}
        n == Len(frame_calls)
    IN  (n > 0)
           => /\ Cardinality({i \in 1..n : frame_calls[i] = "update"}) = 1
              /\ \A i, j \in 1..n :
                    (frame_calls[i] \in Interactions /\ frame_calls[j] = "update") => j < i
              /\ \A i, j \in 1..n :
                    (/\ frame_calls[i] = "sync_decay_with_grid"
                     /\ frame_calls[j] \in Interactions \cup {"update"}) => j < i

\* C17: the constructor rejects decay_time <= 0, so no engine with a
\* non-positive decay_time exists, no update call divides by zero, and no
\* update call with a positive delta raises the percentage.
C17_FailFast ==
    /\ \A i \in EngineIds : engines[i] # NoEngine => engines[i].decay_time > 0
    /\ pc # "ZeroDivisionError"
    /\ (result = "update" /\ call.arg > 0 /\ pc = "contract") => call.ret < Pt(100)

\* C18: while Game3 is WAITING_FOR_PLAYER the player's keys are never more
\* than the expected keys, and a key press that makes them more ends the
\* turn at once: SHOWING_RESULT with the wrong-answer penalty of -2.0.
C18_PlayerKeysBounded ==
    /\ [](current_game.state = WAITING_FOR_PLAYER
             => Len(current_game.player_keys) <= Len(current_game.expected_player_keys))
    /\ [][(/\ result' = "handle_key_press"
           /\ current_game.state = WAITING_FOR_PLAYER
           /\ call'.arg \in Game3Keys
           /\ Len(current_game.player_keys) + 1 > Len(current_game.expected_player_keys))
             => (/\ current_game'.state = SHOWING_RESULT
                 /\ current_game'.player_keys = Append(current_game.player_keys, call'.arg)
                 /\ call'.ret = 0 - Pt(2))]_vars

\* a key press made the player's keys longer than the expected keys
C18_Witness ==
    /\ result = "handle_key_press"
    /\ current_game.state = SHOWING_RESULT
    /\ Len(current_game.player_keys) > Len(current_game.expected_player_keys)
    /\ call.ret = wrong_decay_penalty

BlockClickAt(i) ==
    /\ frame_calls[i] = "handle_click"
    /\ i < Len(frame_calls)
    /\ frame_calls[i + 1] = "modify_decay"

C22_ForcedSeedAtInit ==
    (pc = "grid" /\ result = "__init__") =>
        frame_calls = <<"sync_decay_with_grid", "modify_decay">>

\* the initial_decay Game1.__init__ derives from the engine, in thousandths
InitialDecay(e) == 1000 - e.decay_percentage \div 2

\* C22, amended: constructing a Game1 runs no reconciliation, forced or not.
\* It makes no call on the engine and leaves decay_percentage and
\* reached_zero as they were; the seeding goes the other way: every new
\* block's decay_value is (1 - decay_percentage / 100) times a factor between
\* 0.7 and 1.3, clamped to [0, 1].
C22_InitSeedsBlocksFromEngine ==
    [][result' = "__init__" =>
          /\ engines' = engines
          /\ frame_calls' = <<>>
          /\ Len(current_game'.blocks) = GRID_ROWS * GRID_COLS
          /\ \A i \in 1..Len(current_game'.blocks) :
                LET d == current_game'.blocks[i].decay_value
                    initial_decay == InitialDecay(engines[decay_engine])
                IN  /\ d >= Min(1000, (initial_decay * 70) \div 100)
                    /\ d <= Min(1000, (initial_decay * 130) \div 100)]_vars

\* a Game1 has just been constructed on an engine at 50% and its grid's
\* health is more than 1.0 away from the engine's percentage
C22_Witness ==
    /\ pc = "grid"
    /\ result = "__init__"
    /\ Percentage = Pt(50)
    /\ Abs(calculate_grid_decay(current_game) - Percentage) > Pt(1)

\* C23: for a non-empty grid calculate_grid_decay returns (1 - mean of the
\* blocks' decay_value) * 100, a value in [0, 100]; 91 blocks all at 0.5
\* give exactly 50.0.
C23_GridHealth ==
    result = "calculate_grid_decay" =>
        LET n == Len(current_game.blocks)
            total == total_decay(current_game.blocks, n)
        IN  /\ n > 0
            /\ call.ret * n * 1000 <= Pt(100) * (n * 1000 - total)
            /\ Pt(100) * (n * 1000 - total) < (call.ret + 1) * n * 1000
            /\ call.ret >= 0
            /\ call.ret <= Pt(100)
            /\ (n = 91 /\ \A i \in 1..n : current_game.blocks[i].decay_value = 500)
                  => call.ret = Pt(50)

\* calculate_grid_decay has been called on 91 blocks all at 0.5
C23_Witness ==
    /\ result = "calculate_grid_decay"
    /\ Len(current_game.blocks) = 91
    /\ \A i \in 1..91 : current_game.blocks[i].decay_value = 500
    /\ call.ret = Pt(50)

C25_ClickCredit ==
    [][(result' = "handle_click" /\ call'.ret = TRUE) =>
          LET i == call'.arg
              n == Len(current_game.blocks)
              d == current_game.blocks[i].decay_value
          IN  /\ current_game'.blocks[i].decay_value = 0
              /\ current_game'.blocks[i].current_stage = 0
              /\ \A j \in 1..n : j # i => current_game'.blocks[j] = current_game.blocks[j]
              /\ frame_calls' = <<"handle_click", "modify_decay">>
              /\ \E amount \in 0..Pt(2) :
                    /\ amount * n * 1000 * 10 <= d * Pt(100) * 15
                    /\ d * Pt(100) * 15 < (amount + 1) * n * 1000 * 10
                    /\ engines'[current_game.engine]
                          = modify_decay(engines[current_game.engine], amount)]_vars

\* a block with decay_value above 0 has been clicked on an engine below 100%
C25_Witness ==
    /\ result = "handle_click"
    /\ call.ret = TRUE
    /\ current_game.click_count >= 1
    /\ current_game.blocks[call.arg].decay_value = 0
    /\ Percentage \notin GridPercentages

\* C26: whenever the driver invokes run() on the main menu or on a
\* mini-game, the driver's engine is above 0 and end_screen_shown is false;
\* and "end_screen" is never stored in next_state, so the "end_screen"
\* branch of the transition block is never taken.
C26_RunNeedsPositiveDecay ==
    [][/\ (pc = "loop" /\ pc' \in {"menu", "game"})
          => (/\ engines'[decay_engine'].decay_percentage > 0
              /\ ~end_screen_shown')
       /\ next_state' # "end_screen"]_vars

\* the driver has invoked Game3.run on an engine that decayed in the menu
C26_Witness ==
    /\ pc = "game"
    /\ current_game.kind = "game3"
    /\ result = "game3"
    /\ Percentage < Pt(100)
    /\ frame_calls = <<"update">>

\* C27: a sync_decay_with_grid call on an engine above 0 leaves it above 0
\* with reached_zero false, whatever the grid's health in [0, 100]; the new
\* percentage is 0.95 * percentage + 0.05 * health when the two differ by
\* more than 1.0.
C27_SyncNoZeroCrossing ==
    [][(result' = "sync_decay_with_grid" /\ Percentage > 0)
          => LET health == current_game.grid_decay_percentage
                 new == engines'[decay_engine].decay_percentage
             IN  /\ health >= 0
                 /\ health <= Pt(100)
                 /\ new > 0
                 /\ ~engines'[decay_engine].reached_zero
                 /\ ~crossed'
                 /\ Abs(health - Percentage) > Pt(1)
                       => (/\ 100 * new <= 95 * Percentage + 5 * health
                           /\ 95 * Percentage + 5 * health < 100 * new + 100)]_vars

\* the engine has been pulled down towards a grid of health 0 and is within
\* 2.0 of zero
C27_Witness ==
    /\ pc = "sync"
    /\ result = "sync_decay_with_grid"
    /\ current_game.grid_decay_percentage = 0
    /\ Percentage > 0
    /\ Percentage < Pt(2)

\* C28: a driver transition between the main menu and a mini-game, in either
\* direction, leaves every engine as it was and hands the driver's engine to
\* the newly constructed screen; and the frames of the start screen, which
\* update the start screen's own engine, change no engine of the driver.
C28_TransitionKeepsEngine ==
    [][/\ (pc = "loop" /\ current_state' # current_state /\ pc' \in {"menu", "game"})
          => (/\ engines' = engines
              /\ decay_engine' = decay_engine
              /\ pc' = "menu" => (current_state \in GameNames /\ menu'.engine = decay_engine)
              /\ pc' = "game" => (/\ current_state = "main_menu"
                                  /\ current_game'.kind = current_state'
                                  /\ current_game'.engine = decay_engine))
       /\ (pc \in {"boot_start", "start_screen"})
          => (engines' = engines /\ decay_engine' = decay_engine)]_vars

\* the driver has come back from a mini-game to a new main menu that holds
\* the engine the game left below 100%
C28_Witness ==
    /\ pc = "menu"
    /\ result = "main_menu"
    /\ current_state = "main_menu"
    /\ menu.engine = decay_engine
    /\ Percentage > 0
    /\ Percentage < Pt(100)

\* C29: in Game3 the state is WAITING_FOR_PLAYER only with a non-empty
\* expected_player_keys, and a key handled on the first frame, before
\* start_new_level has run (the sequence is still empty), returns no bonus
\* and no penalty.
C29_WaitingHasExpectedKeys ==
    /\ current_game.state = WAITING_FOR_PLAYER
          => current_game.expected_player_keys # <<>>
    /\ (result = "handle_key_press" /\ current_game.sequence = <<>>)
          => call.ret = 0

\* C30: once a level has been generated, whenever the state is
\* WAITING_FOR_PLAYER player_keys is shorter than expected_player_keys and
\* equal to it element by element; and a completion check made from there,
\* by SPACE or by the timeout, returns the missed-keys penalty of -1.0.
C30_PlayerKeysStrictPrefix ==
    [][/\ (current_game'.sequence # <<>> /\ current_game'.state = WAITING_FOR_PLAYER)
          => (/\ Len(current_game'.player_keys) < Len(current_game'.expected_player_keys)
              /\ \A i \in 1..Len(current_game'.player_keys) :
                    current_game'.player_keys[i] = current_game'.expected_player_keys[i])
       /\ (/\ current_game.sequence # <<>>
           /\ current_game.state = WAITING_FOR_PLAYER
           /\ current_game'.state = SHOWING_RESULT
           /\ \/ result' = "update_game"
              \/ result' = "handle_key_press" /\ call'.arg = K_SPACE)
          => (/\ call'.ret = wrong_decay_penalty \div 2
              /\ current_game'.result_message = "Incorrect")]_vars

\* a first correct key of a longer sequence has been pressed and the game
\* still waits for the rest
C30_Witness ==
    /\ result = "handle_key_press"
    /\ current_game.sequence # <<>>
    /\ current_game.state = WAITING_FOR_PLAYER
    /\ Len(current_game.player_keys) = 1
    /\ Len(current_game.expected_player_keys) = 3
    /\ call.ret = Pt(1)

=============================================================================
